---- MODULE Spec2Model ----
(***************************************************************************)
(* The browser side of visera: the REST client (apiRequest with its        *)
(* handleAuthError), the AuthProvider React context backed by localStorage,*)
(* the login page, the settings page and the dashboard layout.             *)
(*                                                                         *)
(* One state is one moment of one browser tab.  A step is one task of the  *)
(* JavaScript event loop: a user gesture's handler up to its first await,  *)
(* the continuation of an awaited fetch (run to completion through every   *)
(* caller's catch/finally), a React effect, or a navigation the browser or *)
(* the Next.js router commits.                                             *)
(***************************************************************************)
EXTENDS Integers, Sequences, FiniteSets, TLC

VARIABLES
    location,        \* window.location: [pathname, search]
    localStorage,    \* key -> <<>> (no item) or <<text>>
    user,            \* AuthProvider state `user`: <<>> (null) or <<User>>
    isLoading,       \* AuthProvider state `isLoading`
    layoutRev,       \* which revision of (dashboard)/layout.tsx is deployed
    layoutIsLoading, \* DashboardLayout state `isLoading` (revision 1)
    loginError,      \* LoginPage state `error`: <<>> or <<message>>
    isSubmitting,    \* LoginPage state `isSubmitting`
    settingsError,   \* SettingsPage state `error`
    isDeleting,      \* SettingsPage state `isDeleting`
    inflight,        \* fetch calls sent and not yet settled
    pendingPush,     \* target of the last router.push() not yet committed
    pendingHref,     \* value last assigned to window.location.href, not yet loaded
    effects,         \* React effects scheduled and not yet run
    settled,         \* the apiRequest call settled by the last step, <<>> otherwise
    db,              \* the backend's user table: id -> <<>> or <<record>>
    handled          \* the request the backend handled in the last step, <<>> otherwise

browser == <<location, localStorage, user, isLoading, layoutRev, layoutIsLoading,
             loginError, isSubmitting, settingsError, isDeleting, inflight,
             pendingPush, pendingHref, effects, settled>>

vars == <<location, localStorage, user, isLoading, layoutRev, layoutIsLoading,
          loginError, isSubmitting, settingsError, isDeleting, inflight,
          pendingPush, pendingHref, effects, settled, db, handled>>

----------------------------------------------------------------------------
(* Values.  A nullable JavaScript value is a sequence of length at most 1. *)

None == <<>>
Some(x) == <<x>>

USER_KEY == "visera_user"
TOKEN_KEY == "visera_auth_token"

\* types/auth.ts User (email and created_at play no part in any decision)
Users == { [id |-> 1, is_email_verified |-> TRUE],
           [id |-> 2, is_email_verified |-> FALSE] }

\* LoginResponse.access_token as the backend returns it
AccessToken == "jwt"

Unauthorized == 401
Forbidden == 403
NoContent == 204

\* error details, as the words of the `detail` string
DetailBadLogin == <<"Incorrect", "email", "or", "password">>
DetailVerify == <<"Email", "verification", "required">>
DetailVerifyFirst == <<"Please", "complete", "Email", "Verification">>
DetailVerifySecond == <<"Verification", "Required">>
Details == {DetailBadLogin, DetailVerify}
AllDetails == Details \cup {DetailVerifyFirst, DetailVerifySecond}

ErrorStatuses == {Unauthorized, Forbidden, 404, 500}

StatusText(status) ==
    CASE status = 401 -> "Unauthorized"
      [] status = 403 -> "Forbidden"
      [] status = 404 -> "Not Found"
      [] status = 500 -> "Internal Server Error"
      [] OTHER -> "OK"

----------------------------------------------------------------------------
(* Strings *)

\* String.prototype.toLowerCase, word by word
ToLowerCase(words) ==
    [i \in 1..Len(words) |->
        CASE words[i] = "Incorrect" -> "incorrect"
          [] words[i] = "Email" -> "email"
          [] words[i] = "Please" -> "please"
          [] words[i] = "Verification" -> "verification"
          [] words[i] = "Required" -> "required"
          [] OTHER -> words[i]]

\* String.prototype.includes: `phrase` occurs in `words` as a contiguous run
Includes(words, phrase) ==
    \E i \in 0..(Len(words) - Len(phrase)) :
        \A j \in 1..Len(phrase) : words[i + j] = phrase[j]

\* encodeURIComponent of a pathname: "/" is escaped, the letters are kept
PathSegment(pathname) ==
    CASE pathname = "/login" -> "login"
      [] pathname = "/home" -> "home"
      [] pathname = "/settings" -> "settings"
      [] pathname = "/signup" -> "signup"
      [] pathname = "/dashboard" -> "dashboard"
      [] pathname = "/verify-otp" -> "verify-otp"
      [] pathname = "/send-verification-email" -> "send-verification-email"

EncodeURIComponent(pathname) == "%2F" \o PathSegment(pathname)

\* a URL as the browser parses it
Url(pathname, search) == [pathname |-> pathname, search |-> search]

\* JSON.stringify of a User
JSONStringify(u) ==
    "{id:" \o ToString(u.id) \o ",is_email_verified:"
           \o (IF u.is_email_verified THEN "true" ELSE "false") \o "}"

\* JSON.parse: [throws, value]; the text "null" parses to null
JSONParse(text) ==
    IF \E u \in Users : JSONStringify(u) = text
    THEN [throws |-> FALSE, value |-> Some(CHOOSE u \in Users : JSONStringify(u) = text)]
    ELSE IF text = "null"
    THEN [throws |-> FALSE, value |-> None]
    ELSE [throws |-> TRUE, value |-> None]

----------------------------------------------------------------------------
(* lib/auth/storage.ts *)

\* userStorage.getUser (all modelled code runs in the browser: window is defined)
GetUser(storage) == storage[USER_KEY]

\* userStorage.setUser
SetUser(storage, text) == [storage EXCEPT ![USER_KEY] = Some(text)]

\* clearAuthStorage: tokenStorage.removeToken(); userStorage.removeUser()
ClearAuthStorage(storage) ==
    [storage EXCEPT ![TOKEN_KEY] = None, ![USER_KEY] = None]

----------------------------------------------------------------------------
(* lib/api/client.ts *)

\* object spread {...a, ...b}: the keys of b win
Spread(a, b) == b @@ a

\* FetchInit with the options spread last: a credentials member of the
\* caller's options would win
FetchInitOptionsLast(options) ==
    LET headers == Spread("Content-Type" :> "application/json",
                          IF "headers" \in DOMAIN options THEN options.headers
                          ELSE [k \in {} |-> ""])
    IN  Spread(Spread([credentials |-> "include"], options), [headers |-> headers])

\* the RequestInit apiRequest hands to fetch
FetchInit(options) ==
    LET headers == Spread("Content-Type" :> "application/json",
                          IF "headers" \in DOMAIN options THEN options.headers
                          ELSE [k \in {} |-> ""])
    IN  Spread(Spread(options, [headers |-> headers]), [credentials |-> "include"])

\* a body: what response.json() yields
Body(shape, u, detail) == [shape |-> shape, user |-> u, detail |-> detail]
NoBody == Body("none", None, <<>>)

\* an HTTP response: bodyJson says whether response.json() succeeds
Response(status, contentType, bodyJson, body) ==
    [network |-> TRUE, status |-> status, contentType |-> contentType,
     bodyJson |-> bodyJson, body |-> body]

\* fetch itself rejecting (no response at all)
NetworkFailure ==
    [network |-> FALSE, status |-> 0, contentType |-> None,
     bodyJson |-> FALSE, body |-> NoBody]

Ok(resp) == resp.status \in 200..299

\* content-type header values, as their tokens
ApplicationJson == <<"application/json">>
ApplicationJsonUtf8 == <<"application/json", ";", "charset=utf-8">>
TextHtml == <<"text/html">>
TextPlain == <<"text/plain">>

GenericMessage == <<"An", "error", "occurred">>
HttpMessage(status) == <<"HTTP", ToString(status) \o ":", StatusText(status)>>
FetchFailedMessage == <<"Failed", "to", "fetch">>
SyntaxErrorMessage == <<"Unexpected", "end", "of", "JSON", "input">>

\* HandleAuthError comparing the detail as it came, without toLowerCase
HandleAuthErrorCaseSensitive(status, errorDetail, currentPath) ==
    IF status = Unauthorized
    THEN Some(Url("/login",
                  IF currentPath # "/login"
                  THEN "?redirect=" \o EncodeURIComponent(currentPath)
                  ELSE ""))
    ELSE IF status = Forbidden
    THEN LET isEmailVerificationIssue ==
                 \/ Includes(errorDetail, <<"email", "verification">>)
                 \/ Includes(errorDetail, <<"verification", "required">>)
         IN  IF isEmailVerificationIssue
             THEN Some(Url("/verify-otp", ""))
             ELSE Some(Url("/login", ""))
    ELSE None

\* handleAuthError: the value it assigns to window.location.href, if any
HandleAuthError(status, errorDetail, currentPath) ==
    IF status = Unauthorized
    THEN Some(Url("/login",
                  IF currentPath # "/login"
                  THEN "?redirect=" \o EncodeURIComponent(currentPath)
                  ELSE ""))
    ELSE IF status = Forbidden
    THEN LET isEmailVerificationIssue ==
                 \/ Includes(ToLowerCase(errorDetail), <<"email", "verification">>)
                 \/ Includes(ToLowerCase(errorDetail), <<"verification", "required">>)
         IN  IF isEmailVerificationIssue
             THEN Some(Url("/verify-otp", ""))
             ELSE Some(Url("/login", ""))
    ELSE None

\* ErrorMessage leaving the detail of the body unread
ErrorMessageWithoutDetail(resp) ==
    IF resp.bodyJson THEN GenericMessage ELSE HttpMessage(resp.status)

\* the message of the Error apiRequest throws for a response that is not ok
ErrorMessage(resp) ==
    IF resp.bodyJson
    THEN (IF resp.body.detail # <<>> THEN resp.body.detail ELSE GenericMessage)
    ELSE HttpMessage(resp.status)

\* response.json() on an ok response: the parsed body, or a SyntaxError
ResponseJson(resp) ==
    IF resp.bodyJson
    THEN [rejected |-> FALSE, message |-> <<>>,
          value |-> "json", body |-> resp.body, href |-> None, parsed |-> TRUE]
    ELSE [rejected |-> TRUE, message |-> SyntaxErrorMessage,
          value |-> "none", body |-> NoBody, href |-> None, parsed |-> TRUE]

\* ResolveOk looking at the content type before the status
ResolveOkContentTypeFirst(resp) ==
    IF resp.contentType # None /\ Includes(resp.contentType[1], ApplicationJson)
    THEN ResponseJson(resp)
    ELSE IF resp.status = NoContent
    THEN [rejected |-> FALSE, message |-> <<>>,
          value |-> "undefined", body |-> NoBody, href |-> None, parsed |-> FALSE]
    ELSE [rejected |-> FALSE, message |-> <<>>,
          value |-> "empty", body |-> NoBody, href |-> None, parsed |-> FALSE]

\* apiRequest for an ok response: 204, then the content type
ResolveOk(resp) ==
    IF resp.status = NoContent
    THEN [rejected |-> FALSE, message |-> <<>>,
          value |-> "undefined", body |-> NoBody, href |-> None, parsed |-> FALSE]
    ELSE IF resp.contentType # None /\ Includes(resp.contentType[1], ApplicationJson)
    THEN ResponseJson(resp)
    ELSE [rejected |-> FALSE, message |-> <<>>,
          value |-> "empty", body |-> NoBody, href |-> None, parsed |-> FALSE]

\* apiRequest from the point where fetch settles: how the promise settles
\* (rejected with message, or resolved with value) and the href it assigned
ApiSettle(resp, currentPath) ==
    IF ~resp.network
    THEN [rejected |-> TRUE, message |-> FetchFailedMessage,
          value |-> "none", body |-> NoBody, href |-> None, parsed |-> FALSE]
    ELSE IF ~Ok(resp)
    THEN LET errorMessage == ErrorMessage(resp)
             errorDetail == IF resp.bodyJson THEN resp.body.detail ELSE <<>>
         IN  [rejected |-> TRUE, message |-> errorMessage,
              value |-> "none", body |-> NoBody, parsed |-> TRUE,
              href |-> IF resp.status = Unauthorized \/ resp.status = Forbidden
                       THEN HandleAuthError(resp.status, errorDetail, currentPath)
                       ELSE None]
    ELSE ResolveOk(resp)

\* the responses the backend (or the network) may give
ErrorResponses ==
    {Response(s, Some(ApplicationJson), TRUE, Body("error", None, d)) :
        s \in ErrorStatuses, d \in AllDetails \cup {<<>>}}
    \cup {Response(s, Some(TextHtml), FALSE, NoBody) : s \in ErrorStatuses}

JsonOk(body) == Response(200, Some(ApplicationJson), TRUE, body)
Empty204 == Response(NoContent, None, FALSE, NoBody)

SuccessResponses(caller) ==
    CASE caller = "login" -> {JsonOk(Body("login", Some(u), <<>>)) : u \in Users}
      [] caller \in {"checkAuth", "fetchUser"} ->
            {JsonOk(Body("user", Some(u), <<>>)) : u \in Users}
      [] caller = "logout" -> {JsonOk(Body("message", None, <<>>)), Empty204}
      [] caller = "handleDeleteAccount" -> {Empty204}
      [] OTHER -> {JsonOk(Body("user", Some(u), <<>>)) : u \in Users}
                  \cup {Empty204,
                        Response(NoContent, Some(ApplicationJson), FALSE, NoBody),
                        Response(NoContent, Some(ApplicationJson), TRUE,
                                 Body("user", Some([id |-> 1, is_email_verified |-> TRUE]), <<>>)),
                        Response(200, Some(ApplicationJsonUtf8), TRUE,
                                 Body("user", Some([id |-> 1, is_email_verified |-> TRUE]), <<>>)),
                        Response(200, Some(ApplicationJson), FALSE, NoBody),
                        Response(200, Some(TextPlain), TRUE,
                                 Body("user", Some([id |-> 1, is_email_verified |-> TRUE]), <<>>)),
                        Response(200, Some(TextPlain), FALSE, NoBody),
                        Response(200, None, FALSE, NoBody)}

\* a bare apiRequest call is given every error response; the calls made
\* through the context and the pages are given those with a detail or with no
\* JSON body at all
FailureResponses(caller) ==
    IF caller = "apiRequest"
    THEN ErrorResponses \cup {NetworkFailure}
    ELSE {resp \in ErrorResponses :
            resp.status # 404 /\ (resp.bodyJson => resp.body.detail \in Details)}
         \cup {NetworkFailure}

Responses(caller) == SuccessResponses(caller) \cup FailureResponses(caller)

\* a fetch in flight: who awaits it, the pathname its closure captured, and
\* whether the component instance that issued it is still mounted
Request(caller, origin, endpoint, options, pathname) ==
    [caller |-> caller, origin |-> origin, endpoint |-> endpoint,
     options |-> options, init |-> FetchInit(options), pathname |-> pathname,
     live |-> TRUE]

\* lib/api/auth.ts
AuthApiLogin == [endpoint |-> "/api/v1/auth/login", options |-> [method |-> "POST"]]
AuthApiGetCurrentUser == [endpoint |-> "/api/v1/auth/me", options |-> [k \in {} |-> ""]]
AuthApiLogout == [endpoint |-> "/api/v1/auth/logout", options |-> [method |-> "POST"]]
DeleteAccountCall == [endpoint |-> "/api/v1/users/me", options |-> [method |-> "DELETE"]]

Call(caller, origin, api, pathname) ==
    Request(caller, origin, api.endpoint, api.options, pathname)

\* the model keeps at most MaxInFlight fetches in flight at a time
MaxInFlight == 2

----------------------------------------------------------------------------
(* The backend's user table.  The backend (FastAPI routers, services and    *)
(* the User model) is described by the specification's data model: a user   *)
(* record carries an email-verification flag and a soft-deletion flag.      *)

\* the model lets the table hold at most MaxAccounts records
MaxAccounts == 3
AccountIds == 1..MaxAccounts

NoUsers == [id \in AccountIds |-> None]

\* signup: the record is created unverified and not deleted
CreateUser(table, id) ==
    [table EXCEPT ![id] = Some([is_email_verified |-> FALSE, deleted |-> FALSE])]

\* a successful OTP or email-token check: the record becomes verified
MarkVerified(table, id) ==
    [table EXCEPT ![id] = Some([@[1] EXCEPT !.is_email_verified = TRUE])]

\* account deletion that drops the row
HardDelete(table, id) == [table EXCEPT ![id] = None]

\* account deletion: the record is kept and flagged
SoftDelete(table, id) ==
    [table EXCEPT ![id] = Some([@[1] EXCEPT !.deleted = TRUE])]

\* the calls of the pages that reach the user table
SignupCall == [endpoint |-> "/api/v1/users", options |-> [method |-> "POST"]]
AuthApiVerifyEmail ==
    [endpoint |-> "/api/v1/auth/verify-email", options |-> [method |-> "POST"]]

Handled(call, id, ok) == Some([call |-> call, id |-> id, ok |-> ok])



DashboardRoutes == {"/home", "/settings"}
VisitPaths == {"/login", "/home", "/settings", "/signup"}

LoginPageMounted(loc) == loc.pathname = "/login"
LayoutMounted(loc) == loc.pathname \in DashboardRoutes
SettingsPageMounted(loc) == loc.pathname = "/settings"

\* the component whose state a call's continuation sets
OwnerMounted(req, loc) ==
    CASE req.caller = "login" -> LoginPageMounted(loc)
      [] req.caller = "checkAuth" -> LayoutMounted(loc)
      [] req.caller = "handleDeleteAccount" -> SettingsPageMounted(loc)
      [] OTHER -> TRUE

\* AuthContext value (lib/auth/context.tsx)
ContextValue ==
    [user |-> user, token |-> None, isAuthenticated |-> user # None,
     isLoading |-> isLoading]

\* what DashboardLayout returns: "loading", "null" or "children"
DashboardLayoutRender ==
    IF layoutRev = "checkAuth"
    THEN (IF layoutIsLoading THEN "loading" ELSE "children")
    ELSE (IF ContextValue.isLoading THEN "loading"
          ELSE IF ContextValue.user = None THEN "null"
          ELSE "children")

\* the sidebar and the page are on screen
ChildrenRendered == LayoutMounted(location) /\ DashboardLayoutRender = "children"

\* useState lazy initialiser of AuthProvider
InitialUser(storage) ==
    LET storedUser == GetUser(storage)
    IN  IF storedUser # None /\ storedUser[1] # ""
        THEN (IF JSONParse(storedUser[1]).throws THEN None
              ELSE JSONParse(storedUser[1]).value)
        ELSE None

\* React: the effects to run after a commit that takes the tab from the
\* current state to (loc, u, loading); docLoad says the document was reloaded
Scheduled(pending, loc, u, loading, docLoad) ==
    LET wasLogin == ~docLoad /\ LoginPageMounted(location)
        wasLayout == ~docLoad /\ LayoutMounted(location)
        userChanged == u # user
        loadingChanged == loading # isLoading
        pathChanged == loc.pathname # location.pathname
        kept == {e \in pending :
                    /\ ~docLoad
                    /\ e = "LoginPage" => LoginPageMounted(loc)
                    /\ e = "DashboardLayout" => LayoutMounted(loc)}
    IN  kept
        \cup {e \in {"AuthProvider"} : docLoad \/ userChanged}
        \cup {e \in {"LoginPage"} :
                LoginPageMounted(loc)
                /\ (~wasLogin \/ userChanged \/ loadingChanged)}
        \cup {e \in {"DashboardLayout"} :
                LayoutMounted(loc)
                /\ (~wasLayout
                    \/ IF layoutRev = "checkAuth" THEN pathChanged
                       ELSE userChanged \/ loadingChanged)}

----------------------------------------------------------------------------
(* Initial state: the user opens the application in a fresh tab.  The key  *)
(* visera_user holds what an earlier visit left: nothing, a user, or text   *)
(* that is no user (the lazy initialiser's try/catch is there for it).      *)

StoredTexts == {JSONStringify(u) : u \in Users} \cup {"{"}
LayoutRevs == {"checkAuth", "useAuth"}

Init ==
    \E pathname \in VisitPaths, item \in {None} \cup {Some(t) : t \in StoredTexts},
       rev \in LayoutRevs :
        /\ location = Url(pathname, "")
        /\ localStorage = (USER_KEY :> item) @@ (TOKEN_KEY :> None)
        /\ user = InitialUser(localStorage)
        /\ isLoading = FALSE
        /\ layoutRev = rev
        /\ layoutIsLoading = TRUE
        /\ loginError = None
        /\ isSubmitting = FALSE
        /\ settingsError = None
        /\ isDeleting = FALSE
        /\ inflight = {}
        /\ pendingPush = None
        /\ pendingHref = None
        /\ effects = {"AuthProvider"}
                     \cup {e \in {"LoginPage"} : LoginPageMounted(location)}
                     \cup {e \in {"DashboardLayout"} : LayoutMounted(location)}
        /\ settled = None
        /\ db = NoUsers
        /\ handled = None

----------------------------------------------------------------------------
(* Navigation *)

\* the tab shows loc: after a document load (docLoad) every component is a new
\* instance and no script of the old document survives; after a router
\* transition the components that stay mounted keep their state
Show(loc, docLoad) ==
    LET staysLogin == ~docLoad /\ LoginPageMounted(location) /\ LoginPageMounted(loc)
        staysLayout == ~docLoad /\ LayoutMounted(location) /\ LayoutMounted(loc)
        staysSettings == ~docLoad /\ SettingsPageMounted(location)
                         /\ SettingsPageMounted(loc)
    IN  /\ location' = loc
        /\ user' = IF docLoad THEN InitialUser(localStorage) ELSE user
        /\ isLoading' = IF docLoad THEN FALSE ELSE isLoading
        /\ layoutIsLoading' = IF staysLayout THEN layoutIsLoading ELSE TRUE
        /\ loginError' = IF staysLogin THEN loginError ELSE None
        /\ isSubmitting' = IF staysLogin THEN isSubmitting ELSE FALSE
        /\ settingsError' = IF staysSettings THEN settingsError ELSE None
        /\ isDeleting' = IF staysSettings THEN isDeleting ELSE FALSE
        /\ inflight' = IF docLoad THEN {}
                       ELSE {[r EXCEPT !.live = r.live /\ OwnerMounted(r, loc)] :
                                r \in inflight}
        /\ pendingPush' = None
        /\ pendingHref' = IF docLoad THEN None ELSE pendingHref
        /\ effects' = Scheduled(effects, loc, user', isLoading', docLoad)
        /\ settled' = None
        /\ UNCHANGED <<localStorage, layoutRev, db, handled>>

\* the user acts on a page that has come to rest: no navigation is under
\* way and React has run the effects of the last commit
AtRest == pendingPush = None /\ pendingHref = None /\ effects = {}

\* the user types a URL or reloads the tab
Visit(pathname) ==
    /\ pathname \in VisitPaths
    /\ AtRest
    /\ Show(Url(pathname, ""), TRUE)

\* the browser loads the URL assigned to window.location.href
BrowserNavigate ==
    /\ pendingHref # None
    /\ Show(pendingHref[1], TRUE)

\* the Next.js router commits the last router.push
RouterCommit ==
    /\ pendingPush # None
    /\ Show(pendingPush[1], FALSE)

----------------------------------------------------------------------------
(* A task of the page's script.  An outcome is what the task leaves behind: *)
(* the React state it set, the storage it wrote, the fetches it sent and    *)
(* the router.push it made.                                                 *)

Keep ==
    [user |-> user, storage |-> localStorage, isLoading |-> isLoading,
     layoutIsLoading |-> layoutIsLoading, loginError |-> loginError,
     isSubmitting |-> isSubmitting, settingsError |-> settingsError,
     isDeleting |-> isDeleting, sent |-> {}, push |-> None, thrown |-> FALSE]

\* commit the outcome o of a task that settled the calls `done`, assigned
\* href to window.location.href (if any) and ran the effects `ran`
Commit(o, done, href, ran, observed) ==
    /\ Cardinality((inflight \ done) \cup o.sent) <= MaxInFlight
    /\ user' = o.user
    /\ localStorage' = o.storage
    /\ isLoading' = o.isLoading
    /\ layoutIsLoading' = o.layoutIsLoading
    /\ loginError' = o.loginError
    /\ isSubmitting' = o.isSubmitting
    /\ settingsError' = o.settingsError
    /\ isDeleting' = o.isDeleting
    /\ inflight' = (inflight \ done) \cup o.sent
    /\ pendingPush' = IF o.push # None THEN o.push ELSE pendingPush
    /\ pendingHref' = IF href # None THEN href ELSE pendingHref
    /\ effects' = Scheduled(effects \ ran, location, o.user, o.isLoading, FALSE)
    /\ settled' = observed
    /\ UNCHANGED <<location, layoutRev, db, handled>>

----------------------------------------------------------------------------
(* lib/auth/context.tsx: AuthProvider *)

\* logout up to its await: authApi.logout() is sent
LogoutStart(o, origin) ==
    [o EXCEPT !.sent = @ \cup {Call("logout", origin, AuthApiLogout, "")}]

\* LogoutFinally without clearAuthStorage()
LogoutFinallyKeepingStorage(o) ==
    [o EXCEPT !.user = None,
              !.push = Some(Url("/login", ""))]

\* logout after the await: the catch swallows any error, the finally runs
LogoutFinally(o) ==
    [o EXCEPT !.user = None,
              !.storage = ClearAuthStorage(@),
              !.push = Some(Url("/login", ""))]

\* RefreshUser swallowing the error in its catch
RefreshUserSwallowing(o, r) ==
    IF r.rejected
    THEN [o EXCEPT !.user = None, !.storage = ClearAuthStorage(@)]
    ELSE [o EXCEPT !.user = r.body.user,
                   !.storage = SetUser(@, JSONStringify(r.body.user[1]))]

\* refreshUser after the await of authApi.getCurrentUser(); r is how it
\* settled; thrown: the catch rethrows the error to the caller
RefreshUser(o, r) ==
    IF r.rejected
    THEN [o EXCEPT !.user = None, !.storage = ClearAuthStorage(@),
                   !.thrown = TRUE]
    ELSE [o EXCEPT !.user = r.body.user,
                   !.storage = SetUser(@, JSONStringify(r.body.user[1]))]

\* Login keeping the access token of the response in localStorage
LoginStoringToken(o, r) ==
    IF r.rejected
    THEN o
    ELSE [o EXCEPT !.user = r.body.user,
                   !.storage = [SetUser(@, JSONStringify(r.body.user[1]))
                                   EXCEPT ![TOKEN_KEY] = Some(AccessToken)]]

\* login after the await of authApi.login(credentials)
Login(o, r) ==
    IF r.rejected
    THEN o
    ELSE [o EXCEPT !.user = r.body.user,
                   !.storage = SetUser(@, JSONStringify(r.body.user[1]))]

\* the mount effect of AuthProvider
AuthProviderEffect ==
    /\ "AuthProvider" \in effects
    /\ LET storedUser == GetUser(localStorage)
           o == IF storedUser # None /\ storedUser[1] # "" /\ user = None
                THEN [Keep EXCEPT
                        !.isLoading = TRUE,
                        !.sent = {Call("fetchUser", "AuthProvider",
                                       AuthApiGetCurrentUser, "")}]
                ELSE Keep
       IN  Commit(o, {}, None, {"AuthProvider"}, None)

\* what a settling step records: the call, the response and how apiRequest settled
Observed(req, resp, r) == Some([req |-> req, resp |-> resp, result |-> r])

\* fetchUser (the mount effect's async function) after refreshUser settles
FetchUserSettles ==
    \E req \in inflight : \E resp \in Responses(req.caller) :
      /\ req.caller = "fetchUser"
      /\ LET r == ApiSettle(resp, location.pathname)
             o1 == RefreshUser(Keep, r)
             o2 == IF o1.thrown
                   THEN [o1 EXCEPT !.user = None, !.storage = ClearAuthStorage(@)]
                   ELSE o1
             o3 == [o2 EXCEPT !.isLoading = FALSE]
         IN  Commit(o3, {req}, r.href, {}, Observed(req, resp, r))

\* the logout call settles, whichever way
LogoutSettles ==
    \E req \in inflight : \E resp \in Responses(req.caller) :
      /\ req.caller = "logout"
      /\ LET r == ApiSettle(resp, location.pathname)
         IN  Commit(LogoutFinally(Keep), {req}, r.href, {}, Observed(req, resp, r))

----------------------------------------------------------------------------
(* (auth)/login/page.tsx: LoginPage *)

\* where a verified user is sent after signing in
AfterLoginPath == "/dashboard"

\* handleSubmit up to the await of login(credentials)
SubmitLogin ==
    /\ AtRest
    /\ LoginPageMounted(location)
    /\ ~isLoading
    /\ ~\E q \in inflight : q.caller = "login"
    /\ Commit([Keep EXCEPT
                 !.isSubmitting = TRUE,
                 !.loginError = None,
                 !.sent = {Call("login", "handleSubmit", AuthApiLogin, "")}],
              {}, None, {}, None)

\* handleSubmit after the await: try, catch and finally
HandleSubmit(o, req, r) ==
    LET o1 == Login(o, r)
        o2 == IF r.rejected
              THEN [o1 EXCEPT !.loginError = IF req.live THEN Some(r.message) ELSE @]
              ELSE IF ~r.body.user[1].is_email_verified
              THEN [LogoutStart(o1, "handleSubmit") EXCEPT
                      !.push = Some(Url("/send-verification-email", ""))]
              ELSE [o1 EXCEPT !.push = Some(Url(AfterLoginPath, ""))]
    IN  [o2 EXCEPT !.isSubmitting = IF req.live THEN FALSE ELSE @]

LoginSettles ==
    \E req \in inflight : \E resp \in Responses(req.caller) :
      /\ req.caller = "login"
      /\ LET r == ApiSettle(resp, location.pathname)
         IN  Commit(HandleSubmit(Keep, req, r), {req}, r.href, {},
                    Observed(req, resp, r))

\* the redirect effect of LoginPage
LoginPageEffect ==
    /\ "LoginPage" \in effects
    /\ LET c == ContextValue
           o == IF ~c.isLoading /\ c.isAuthenticated
                THEN (IF c.user[1].is_email_verified
                      THEN [Keep EXCEPT !.push = Some(Url("/dashboard", ""))]
                      ELSE LogoutStart(Keep, "LoginPage"))
                ELSE Keep
       IN  Commit(o, {}, None, {"LoginPage"}, None)

----------------------------------------------------------------------------
(* (dashboard)/settings/page.tsx: SettingsPage *)

\* handleDeleteAccount up to the await of apiRequest
ClickDeleteAccount ==
    /\ AtRest
    /\ SettingsPageMounted(location)
    /\ ChildrenRendered
    /\ ~isDeleting
    /\ ~\E q \in inflight : q.caller = "handleDeleteAccount"
    /\ Commit([Keep EXCEPT
                 !.isDeleting = TRUE,
                 !.settingsError = None,
                 !.sent = {Call("handleDeleteAccount", "SettingsPage",
                                DeleteAccountCall, "")}],
              {}, None, {}, None)

\* handleDeleteAccount after the await
HandleDeleteAccount(o, req, r) ==
    IF r.rejected
    THEN [o EXCEPT !.settingsError = IF req.live THEN Some(r.message) ELSE @,
                   !.isDeleting = IF req.live THEN FALSE ELSE @]
    ELSE [LogoutStart(o, "handleDeleteAccount") EXCEPT
            !.push = Some(Url("/login", "?deleted=true"))]

DeleteSettles ==
    \E req \in inflight : \E resp \in Responses(req.caller) :
      /\ req.caller = "handleDeleteAccount"
      /\ LET r == ApiSettle(resp, location.pathname)
         IN  Commit(HandleDeleteAccount(Keep, req, r), {req}, r.href, {},
                    Observed(req, resp, r))

----------------------------------------------------------------------------
(* (dashboard)/layout.tsx and (dashboard)/common/Sidebar.tsx *)

NavItems == {"/home", "/settings"}

\* the effect of DashboardLayout, in either revision
DashboardLayoutEffect ==
    /\ "DashboardLayout" \in effects
    /\ LET o == IF layoutRev = "checkAuth"
                THEN [Keep EXCEPT
                        !.sent = {Call("checkAuth", "DashboardLayout",
                                       AuthApiGetCurrentUser, location.pathname)}]
                ELSE IF ~ContextValue.isLoading /\ ContextValue.user = None
                THEN [Keep EXCEPT
                        !.push = Some(Url("/login",
                                          "?redirect="
                                          \o EncodeURIComponent(location.pathname)))]
                ELSE Keep
       IN  Commit(o, {}, None, {"DashboardLayout"}, None)

\* checkAuth after the await of refreshUser: catch and finally
CheckAuth(o, req, r) ==
    LET o1 == RefreshUser(o, r)
        o2 == IF o1.thrown
              THEN [o1 EXCEPT
                      !.push = Some(Url("/login",
                                        "?redirect="
                                        \o EncodeURIComponent(req.pathname)))]
              ELSE o1
    IN  [o2 EXCEPT !.layoutIsLoading = IF req.live THEN FALSE ELSE @]

CheckAuthSettles ==
    \E req \in inflight : \E resp \in Responses(req.caller) :
      /\ req.caller = "checkAuth"
      /\ LET r == ApiSettle(resp, location.pathname)
         IN  Commit(CheckAuth(Keep, req, r), {req}, r.href, {},
                    Observed(req, resp, r))

\* the user follows a sidebar link
ClickNavLink(href) ==
    /\ AtRest
    /\ ChildrenRendered
    /\ href \in NavItems /\ href # location.pathname
    /\ Commit([Keep EXCEPT !.push = Some(Url(href, ""))], {}, None, {}, None)

\* the user presses Sign Out in the sidebar
ClickSignOut ==
    /\ AtRest
    /\ ChildrenRendered
    /\ ~\E q \in inflight : q.caller = "logout" /\ q.origin = "Sidebar"
    /\ Commit(LogoutStart(Keep, "Sidebar"), {}, None, {}, None)

----------------------------------------------------------------------------
(* A page that calls apiRequest itself and only shows how it settled, as   *)
(* (auth)/signup/page.tsx does; the options range over what a caller may    *)
(* pass, a credentials member included.                                     *)

OtherEndpoints == {"/api/v1/users"}
OtherOptions ==
    { [method |-> "POST"],
      [method |-> "POST", credentials |-> "omit",
       headers |-> [Accept |-> "text/plain"]] }

CallApi(endpoint, options) ==
    /\ AtRest
    /\ location.pathname = "/signup"
    /\ endpoint \in OtherEndpoints /\ options \in OtherOptions
    /\ ~\E q \in inflight : q.caller = "apiRequest"
    /\ Commit([Keep EXCEPT
                 !.sent = {Request("apiRequest", "page", endpoint, options, "")}],
              {}, None, {}, None)

ApiSettles ==
    \E req \in inflight : \E resp \in Responses(req.caller) :
      /\ req.caller = "apiRequest"
      /\ LET r == ApiSettle(resp, location.pathname)
         IN  Commit(Keep, {req}, r.href, {}, Observed(req, resp, r))

----------------------------------------------------------------------------
(* The backend handling the requests of the pages *)

\* POST /api/v1/users (signup page)
BackendCreateUser(id) ==
    /\ db[id] = None
    /\ \A j \in AccountIds : j < id => db[j] # None
    /\ db' = CreateUser(db, id)
    /\ handled' = Handled(SignupCall.endpoint, id, TRUE)
    /\ UNCHANGED browser

\* authApi.verifyOtp(email, code) (verify-otp page); ok: the code matches
BackendVerifyOtp(id, ok) ==
    /\ db[id] # None
    /\ db' = IF ok THEN MarkVerified(db, id) ELSE db
    /\ handled' = Handled("verifyOtp", id, ok)
    /\ UNCHANGED browser

\* POST /api/v1/auth/verify-email; ok: the token is valid
BackendVerifyEmail(id, ok) ==
    /\ db[id] # None
    /\ db' = IF ok THEN MarkVerified(db, id) ELSE db
    /\ handled' = Handled(AuthApiVerifyEmail.endpoint, id, ok)
    /\ UNCHANGED browser

\* DELETE /api/v1/users/me (settings page), for the user of the session
BackendDeleteAccount(id) ==
    /\ db[id] # None /\ ~db[id][1].deleted
    /\ db' = SoftDelete(db, id)
    /\ handled' = Handled(DeleteAccountCall.endpoint, id, TRUE)
    /\ UNCHANGED browser

BackendNext ==
    \/ \E id \in AccountIds : BackendCreateUser(id)
    \/ \E id \in AccountIds, ok \in BOOLEAN : BackendVerifyOtp(id, ok)
    \/ \E id \in AccountIds, ok \in BOOLEAN : BackendVerifyEmail(id, ok)
    \/ \E id \in AccountIds : BackendDeleteAccount(id)

BackendSpec == Init /\ [][BackendNext]_vars

----------------------------------------------------------------------------

\* the steps of a tab the user neither reloads nor points elsewhere
TabNext ==
    \/ BrowserNavigate
    \/ RouterCommit
    \/ AuthProviderEffect
    \/ LoginPageEffect
    \/ DashboardLayoutEffect
    \/ SubmitLogin
    \/ ClickDeleteAccount
    \/ \E href \in NavItems : ClickNavLink(href)
    \/ ClickSignOut
    \/ \E endpoint \in OtherEndpoints, options \in OtherOptions :
          CallApi(endpoint, options)
    \/ FetchUserSettles
    \/ LogoutSettles
    \/ LoginSettles
    \/ DeleteSettles
    \/ CheckAuthSettles
    \/ ApiSettles

Next ==
    \/ \E pathname \in VisitPaths : Visit(pathname)
    \/ TabNext

Spec == Init /\ [][Next]_vars

\* what the tab does by itself: the event loop runs every task that is ready
\* (a settled fetch's continuation, an effect, a navigation); the network
\* settles every fetch; the user's gestures are under no obligation
Fairness ==
    /\ WF_vars(BrowserNavigate)
    /\ WF_vars(RouterCommit)
    /\ WF_vars(AuthProviderEffect)
    /\ WF_vars(LoginPageEffect)
    /\ WF_vars(DashboardLayoutEffect)
    /\ WF_vars(FetchUserSettles)
    /\ WF_vars(LogoutSettles)
    /\ WF_vars(LoginSettles)
    /\ WF_vars(DeleteSettles)
    /\ WF_vars(CheckAuthSettles)
    /\ WF_vars(ApiSettles)

\* a tab left to run, the user doing no more than the pages offer
LiveSpec == Init /\ [][TabNext]_vars /\ Fairness

----------------------------------------------------------------------------
(* Properties *)

\* the step just taken settled an apiRequest call with an HTTP response
Settled == settled # None /\ settled[1].resp.network
SettledBy(caller) == Settled /\ settled[1].req.caller = caller
AuthStatus(status) == status = 401 \/ status = 403

\* the details that speak of email verification, whatever their case
VerificationDetails == {DetailVerify, DetailVerifyFirst, DetailVerifySecond}

\* where the tab ends up once the navigations under way are done: a document
\* load discards a router transition, a later router.push replaces an earlier
Destination ==
    IF pendingHref # None THEN pendingHref[1]
    ELSE IF pendingPush # None THEN pendingPush[1]
    ELSE location

C2_Step ==
    (settled' # None /\ settled'[1].resp.network
     /\ ~Ok(settled'[1].resp) /\ ~AuthStatus(settled'[1].resp.status))
        => LET call == settled'[1]
               detail == call.resp.body.detail
           IN  /\ call.result.rejected
               /\ pendingHref' = pendingHref
               /\ (call.resp.bodyJson /\ detail # <<>>)
                    => call.result.message = detail
               /\ (call.req.caller = "login" /\ call.req.live)
                    => /\ loginError' = Some(call.result.message)
                       /\ pendingPush' = pendingPush
                       /\ location' = location
               /\ (call.req.caller = "handleDeleteAccount" /\ call.req.live)
                    => /\ settingsError' = Some(call.result.message)
                       /\ pendingPush' = pendingPush
                       /\ location' = location

C3_WrongPasswordInline ==
    (SettledBy("login") /\ settled[1].resp.status = 401
     /\ settled[1].resp.body.detail = DetailBadLogin)
        => /\ pendingHref = None
           /\ pendingPush = None
           /\ location.pathname = "/login"
           /\ user = None
           /\ loginError = Some(settled[1].result.message)

\* C4: after the API client handled a 401 or a 403, whoever the caller, the
\* context user is null and localStorage holds no user.
C4_AuthErrorClearsState ==
    (Settled /\ AuthStatus(settled[1].resp.status))
        => user = None /\ InitialUser(localStorage) = None

C6_CredentialsInclude ==
    \A q \in inflight : q.init.credentials = "include"

\* C6 witness: a call whose options ask for credentials "omit" is in flight,
\* with credentials "include".
C6_Witness ==
    \E q \in inflight :
        /\ "credentials" \in DOMAIN q.options
        /\ q.options.credentials = "omit"
        /\ q.init.credentials = "include"

\* C7: the dashboard layout renders its children only if the user is
\* authenticated.
C7_ChildrenOnlyIfAuthenticated ==
    ChildrenRendered => ContextValue.isAuthenticated

\* the layout's authentication check is in progress
CheckInProgress ==
    IF layoutRev = "checkAuth"
    THEN \E q \in inflight : q.caller = "checkAuth" /\ q.live
    ELSE \E q \in inflight : q.caller = "fetchUser"

\* C8: while an authentication check is in progress the dashboard layout shows
\* the loading state, not the page.
C8_LoadingWhileChecking ==
    (LayoutMounted(location) /\ CheckInProgress)
        => DashboardLayoutRender = "loading"

\* C9: a successful login of a user whose email is verified sends the user to
\* /home.
C9_VerifiedLoginGoesHome ==
    (SettledBy("login") /\ ~settled[1].result.rejected
     /\ settled[1].resp.body.user[1].is_email_verified)
        => Destination = Url("/home", "")

\* C10: once the account is deleted from the settings page and the logout
\* that follows has settled, the user is logged out and the navigation ends
\* on /login?deleted=true.
C10_DeleteEndsOnDeletedLogin ==
    (settled # None /\ settled[1].req.caller = "logout"
     /\ settled[1].req.origin = "handleDeleteAccount")
        => /\ user = None
           /\ InitialUser(localStorage) = None
           /\ Destination = Url("/login", "?deleted=true")

\* C11: a 204 response resolves with undefined and its body is never parsed,
\* whatever its content-type header; an ok response with a JSON content type
\* resolves to its parsed body; any other ok response resolves to an empty
\* object, again without a parse.
C11_OkResolution ==
    (Settled /\ Ok(settled[1].resp))
        => LET resp == settled[1].resp
               r == settled[1].result
               json == resp.contentType # None
                       /\ resp.contentType[1] \in {ApplicationJson, ApplicationJsonUtf8}
           IN  IF resp.status = 204
               THEN ~r.rejected /\ r.value = "undefined" /\ ~r.parsed
               ELSE IF json
               THEN resp.bodyJson
                      => ~r.rejected /\ r.value = "json" /\ r.body = resp.body
               ELSE ~r.rejected /\ r.value = "empty" /\ ~r.parsed

\* C11 witness: a 204 that carries a JSON content type and a JSON body has
\* resolved with undefined, unparsed.
C11_Witness ==
    /\ Settled
    /\ settled[1].resp.status = 204
    /\ settled[1].resp.contentType = Some(ApplicationJson)
    /\ settled[1].resp.bodyJson
    /\ settled[1].result.value = "undefined"
    /\ ~settled[1].result.parsed

\* C12: a user record is created unverified (and not deleted) by a signup;
\* its verified flag only changes from false to true, on a successful OTP or
\* email-token check; its deleted flag only changes from false to true, on an
\* account-deletion request; no step removes a record.
C12_Step ==
    \A id \in AccountIds :
        LET old == db[id]
            new == db'[id]
            by(calls) == /\ handled' # None /\ handled'[1].id = id
                         /\ handled'[1].ok /\ handled'[1].call \in calls
        IN  /\ old # None => new # None
            /\ (old = None /\ new # None)
                  => /\ ~new[1].is_email_verified /\ ~new[1].deleted
                     /\ by({SignupCall.endpoint})
            /\ (old # None /\ new # None)
                  => /\ old[1].is_email_verified => new[1].is_email_verified
                     /\ old[1].deleted => new[1].deleted
                     /\ (new[1].is_email_verified /\ ~old[1].is_email_verified)
                          => by({"verifyOtp", AuthApiVerifyEmail.endpoint})
                     /\ (new[1].deleted /\ ~old[1].deleted)
                          => by({DeleteAccountCall.endpoint})

C12_LifecycleMonotonic == [][C12_Step]_vars

\* C12 witness: a record that was verified and then deleted is still in the
\* table, next to one deleted unverified.
C12_Witness ==
    /\ handled # None /\ handled[1].call = DeleteAccountCall.endpoint
    /\ \E id \in AccountIds :
          /\ handled[1].id = id
          /\ db[id] = Some([is_email_verified |-> TRUE, deleted |-> TRUE])
    /\ \E id \in AccountIds :
          db[id] = Some([is_email_verified |-> FALSE, deleted |-> TRUE])

\* a logout() call awaits the backend
LogoutInFlight == \E q \in inflight : q.caller = "logout"

\* C13: once logout is invoked, eventually the context user is null and the
\* stored user removed, and eventually the tab is on /login, however the
\* backend's logout call settles.
C13_LogoutEventuallyClears ==
    /\ LogoutInFlight ~> (user = None /\ GetUser(localStorage) = None)
    /\ LogoutInFlight ~> (location.pathname = "/login")

\* C14: when the GET /auth/me of refreshUser succeeds, the context user and
\* the stored user are the returned user; when it fails, the context user is
\* null, the stored user is removed and the caller's catch has run (checkAuth
\* has pushed /login?redirect=<its pathname>).
C14_RefreshUser ==
    (settled # None /\ settled[1].req.caller \in {"checkAuth", "fetchUser"})
        => LET call == settled[1]
           IN  IF call.result.rejected
               THEN /\ user = None
                    /\ GetUser(localStorage) = None
                    /\ call.req.caller = "checkAuth"
                          => pendingPush =
                               Some(Url("/login",
                                        "?redirect="
                                        \o EncodeURIComponent(call.req.pathname)))
               ELSE /\ user = call.resp.body.user
                    /\ GetUser(localStorage) # None
                    /\ JSONParse(GetUser(localStorage)[1]).value = call.resp.body.user

\* C14 witness: the refreshUser of checkAuth failed for a signed-in user: the
\* user is gone from the context and from storage and checkAuth has pushed
\* the login page.
C14_Witness ==
    /\ SettledBy("checkAuth") /\ settled[1].result.rejected
    /\ settled[1].resp.status = 500
    /\ user = None /\ GetUser(localStorage) = None
    /\ pendingPush = Some(Url("/login", "?redirect=%2Fsettings"))

\* C14 witness: the refreshUser of the mount effect succeeded: the returned
\* user is in the context and in storage.
C14_WitnessSuccess ==
    /\ SettledBy("fetchUser") /\ ~settled[1].result.rejected
    /\ user = settled[1].resp.body.user
    /\ GetUser(localStorage) = Some(JSONStringify(user[1]))

\* a freshly loaded document: the provider's effect has not run yet and
\* nothing else has happened
FreshDocument ==
    /\ "AuthProvider" \in effects
    /\ inflight = {} /\ settled = None
    /\ pendingPush = None /\ pendingHref = None
    /\ user = InitialUser(localStorage) /\ ~isLoading
    /\ loginError = None /\ settingsError = None /\ layoutIsLoading

\* C15: when the provider's effect runs on mount and localStorage holds stored
\* user data, it calls refreshUser: GET /auth/me is in flight afterwards.
C15_Step ==
    (FreshDocument /\ "AuthProvider" \notin effects'
     /\ GetUser(localStorage) # None)
        => \E q \in inflight' :
              q.caller = "fetchUser" /\ q.endpoint = AuthApiGetCurrentUser.endpoint

C15_MountValidatesStoredUser == [][C15_Step]_vars

\* C16: once the login of an unverified user has succeeded and the logout
\* that handleSubmit started has settled, the context user is null and the
\* navigation ends on /send-verification-email.
C16_UnverifiedLoginEndsOnVerification ==
    (settled # None /\ settled[1].req.caller = "logout"
     /\ settled[1].req.origin = "handleSubmit")
        => /\ user = None
           /\ Destination = Url("/send-verification-email", "")

\* a login, logout or refreshUser call awaits the backend
AuthCallInFlight ==
    \E q \in inflight : q.caller \in {"login", "logout", "checkAuth", "fetchUser"}

\* C17: whenever no login, logout or refreshUser call is in flight, the
\* context user is the user localStorage holds (null when it holds none), and
\* isAuthenticated is true exactly when the context user is non-null.
C17_ContextMirrorsStorage ==
    ~AuthCallInFlight
        => /\ user = InitialUser(localStorage)
           /\ user # None <=> /\ GetUser(localStorage) # None
                              /\ ~JSONParse(GetUser(localStorage)[1]).throws
           /\ ContextValue.isAuthenticated <=> ContextValue.user # None

\* C17 witness: a logout has settled for a user who was signed in through a
\* login: neither the context nor localStorage holds the user any more.
C17_Witness ==
    /\ SettledBy("logout") /\ settled[1].req.origin = "Sidebar"
    /\ ~AuthCallInFlight
    /\ user = None /\ GetUser(localStorage) = None
    /\ ~ContextValue.isAuthenticated

\* a logout has completed and the navigation it pushed is still to come
\* (only logout pushes /login without a query)
LogoutCompleted == pendingPush = Some(Url("/login", "")) /\ user = None

\* C18: once a logout has completed, the context user stays null unless a
\* login call succeeds, also when a refreshUser call started before the
\* logout succeeds after it.
C18_Step ==
    LogoutCompleted
        => \/ user' = None
           \/ /\ settled' # None
              /\ settled'[1].req.caller = "login"
              /\ ~settled'[1].result.rejected

C18_UserStaysNullAfterLogout == [][C18_Step]_vars

====
